---- MODULE Spec2Model ----
(***************************************************************************)
(* Model of the retention sweeper of src/src/main.rs: the endless loop of  *)
(* main, process_guild, process_channel and filter_messages, run against   *)
(* a remote chat service (guild directory, channel lists, message          *)
(* histories) whose calls may fail.  Time is counted in minutes.           *)
(***************************************************************************)
EXTENDS Integers, Sequences, FiniteSets, TLC

\* ---------------------------------------------------------------- constants
Day == 1440
Week == 10080
Interval == 1
GuildLimit == 1
PageLimit == 100
Now0 == 30 * Day

\* ------------------------------------------------------------------- bounds
MaxCycles == 2
MaxTicks == 1
MaxExternal == 1
MaxLen == 2

\* -------------------------------------------------------------- environment
GuildIds == {1, 2}
ChannelIds == {11, 12, 13, 21}
\* Histories of channel 11: << number of messages, number of 10-day-old ones >>.
Shapes == { << 2, 1 >>, << 101, 0 >>, << 101, 2 >> }
Directories == { {2}, {1, 2} }

\* The channels the service lists for a guild, in the order it returns them.
ChannelsOf(g) ==
  IF g = 1
  THEN << [id |-> 11, name |-> "general"],
          [id |-> 12, name |-> "offtopic"],
          [id |-> 13, name |-> "random"] >>
  ELSE << [id |-> 21, name |-> "general"] >>

GuildOf(c) == IF c = 21 THEN 2 ELSE 1

NameOf(c) ==
  CASE c = 11 -> "general"
    [] c = 12 -> "offtopic"
    [] c = 13 -> "random"
    [] OTHER  -> "general"

\* Retention configurations the process may have been started with.
Configs ==
  { ("general" :> Week) @@ ("random" :> 9 * Day),
    ("random" :> 2 * Week) }

NoResult == "none"
Ok == "ok"
DeleteErrors == {"NotFound", "RateLimited", "Forbidden", "TransportError"}
Results == {NoResult, Ok} \cup DeleteErrors

VARIABLES
  directory,              \* service: ids of the guilds the bot is a member of
  msgs,                   \* service: channel id -> set of message ids present
  old,                    \* service: channel id -> number of 10-day-old messages
  now,                    \* wall clock (Utc::now), in minutes
  ticks,                  \* minutes elapsed outside sleeps (bounded)
  extDeletes,             \* deletions made by other actors (bounded)
  channel_retention,      \* main: the parsed configuration
  pc,                     \* main: position of the single thread of control
  guilds,                 \* main: the guild list of the current cycle
  gi,                     \* main: index of the guild being processed
  channels,               \* process_guild: the channel list of the guild
  ci,                     \* process_guild: index of the channel being processed
  oldest_msg,             \* process_channel: id of batch.last(), 0 for None
  message_ids_to_delete,  \* process_channel: ids collected / still to delete
  cycle,                  \* history: number of the current cycle
  listed,                 \* history: guilds whose channels were requested
  listFailed,             \* history: guilds whose channel request failed
  histReq,                \* history: channel id -> history requests this cycle
  delReq,                 \* history: <<channel, id>> deletions requested
  removed,                \* history: <<channel, id>> deletions that succeeded
  result,                 \* history: channel id -> result of process_channel
  prevResult,             \* history: result of the previous cycle
  started,                \* history: channel id -> time processing began
  snapshot,               \* history: channel id -> messages present at that time
  seen,                   \* history: ids of the pages received for the channel
  sweepStart,             \* history: time the current cycle began
  p_input,                \* parser check: input string, as its characters
  p_out,                  \* parser check: result
  p_pc,                   \* parser check: position
  f_messages,             \* filter check: input list
  f_max_age,              \* filter check: input threshold
  f_out,                  \* filter check: output
  f_pc                    \* filter check: position

envVars == << directory, msgs, old, now, ticks, extDeletes >>
progVars == << channel_retention, pc, guilds, gi, channels, ci, oldest_msg,
               message_ids_to_delete >>
histVars == << cycle, listed, listFailed, histReq, delReq, removed, result,
               prevResult, started, snapshot >>
filterVars == << f_messages, f_max_age, f_out, f_pc >>
moreHist == << seen, sweepStart >>
parseVars == << p_input, p_out, p_pc >>
vars == << envVars, progVars, histVars, filterVars, moreHist, parseVars >>

\* --------------------------------------------------------- remote service
\* Creation time of message i of channel c: ids grow with creation time.  The
\* old[c] oldest messages are 10 days old at Now0, the next one is exactly one
\* week old at Now0, the others are one day old.
Timestamp(c, i) ==
  IF i <= old[c] THEN Now0 - 10 * Day
  ELSE IF i = old[c] + 1 THEN Now0 - Week
  ELSE Now0 - Day

Message(c, i) == [id |-> i, timestamp |-> Timestamp(c, i)]

Max(S) == CHOOSE x \in S : \A y \in S : y <= x

\* The messages of channel c with ids in lo..hi, newest first.
RECURSIVE History(_, _, _)
History(c, lo, hi) ==
  IF lo > hi THEN << >>
  ELSE IF lo = hi
       THEN (IF lo \in msgs[c] THEN << Message(c, lo) >> ELSE << >>)
       ELSE LET mid == (lo + hi) \div 2
            IN History(c, mid + 1, hi) \o History(c, lo, mid)

\* GET /channels/{c}/messages?limit=..[&before=..]: newest first, at most
\* `limit` messages, only ids strictly below `before` (0: no bound).
get_messages(c, limit, before) ==
  LET hi == IF before = 0
            THEN (IF msgs[c] = {} THEN 0 ELSE Max(msgs[c]))
            ELSE before - 1
      all == History(c, 1, hi)
  IN IF Len(all) <= limit THEN all ELSE SubSeq(all, 1, limit)

RECURSIVE TakeAbove(_, _, _)
TakeAbove(S, lo, n) ==
  IF n = 0 \/ S = {} \/ lo > Max(S) THEN << >>
  ELSE IF lo \in S THEN << lo >> \o TakeAbove(S, lo + 1, n - 1)
  ELSE TakeAbove(S, lo + 1, n)

\* GET /users/@me/guilds?after=..&limit=..: ascending ids above `after`, at
\* most `limit` of them.
get_guilds(after, limit) == TakeAbove(directory, after + 1, limit)

\* ------------------------------------------------------------ the program
\* Mutant of filter_messages: `>=` where the code has `>`.
filter_messages_ge(messages, max_age) ==
  LET kept == SelectSeq(messages, LAMBDA msg : now - msg.timestamp >= max_age)
  IN [i \in 1..Len(kept) |-> kept[i].id]

\* filter_messages: ids of the messages older than max_age, in list order.
filter_messages(messages, max_age) ==
  LET kept == SelectSeq(messages, LAMBDA msg : now - msg.timestamp > max_age)
  IN [i \in 1..Len(kept) |-> kept[i].id]

\* Mutant of retention_get: a channel without a rule gets a default of a week.
retention_get_default(name) ==
  IF name \in DOMAIN channel_retention
  THEN << channel_retention[name] >>
  ELSE << Week >>

\* channel_retention.get(&channel.name): << >> for None, << max_age >> for Some.
retention_get(name) ==
  IF name \in DOMAIN channel_retention
  THEN << channel_retention[name] >>
  ELSE << >>

\* The `None => continue` of process_guild: index of the first channel at or
\* after `from` that has a rule, Len(chs) + 1 when there is none.
NextChannel(chs, from) ==
  LET M == {j \in from..Len(chs) : retention_get(chs[j].name) # << >>}
  IN IF M = {} THEN Len(chs) + 1 ELSE CHOOSE j \in M : \A k \in M : j <= k

\* The `for guild in guilds` of main: guild g is next, or the list is
\* exhausted and main sleeps.
AfterGuild(gl, g) ==
  IF g <= Len(gl)
  THEN [pc |-> "process_guild", gi |-> g, ci |-> 0]
  ELSE [pc |-> "sleep", gi |-> g, ci |-> 0]

\* The `for channel in channels` of process_guild, resumed at index `from`;
\* when the list is exhausted process_guild returns Ok(()) to main.
AfterChannel(gl, g, chs, from) ==
  LET j == NextChannel(chs, from)
  IN IF j <= Len(chs)
     THEN [pc |-> "process_channel", gi |-> g, ci |-> j]
     ELSE AfterGuild(gl, g + 1)

\* What main does with an error of get_guilds (`.await?` in main).
OnGuildsError == "exited"

\* What main does with an error of process_guild (`if let Err(e)`): log it
\* and go on with the next guild.
OnGuildError(gl, g) == AfterGuild(gl, g + 1)

\* Mutant of OnChannelError: the error is propagated with `?`, so that
\* process_guild returns and main goes on with the next guild.
OnChannelError_propagate(gl, g, chs, c) == AfterGuild(gl, g + 1)

\* What process_guild does with an error of process_channel (`if let
\* Err(e)`): log it and go on with the next channel.
OnChannelError(gl, g, chs, c) == AfterChannel(gl, g, chs, c + 1)

\* Mutant of OnDeleteError: the error is dropped and the loop goes on.
OnDeleteError_swallow(e) == Ok

\* What process_channel does with an error of delete_message (`.await?`):
\* every error, NotFound included, ends the channel with that error.
OnDeleteError(e) == e

CurGuild == guilds[gi]
CurChannel == channels[ci]
CurMaxAge == retention_get(CurChannel.name)[1]

Goto(ctl) ==
  /\ pc' = ctl.pc
  /\ gi' = ctl.gi
  /\ ci' = ctl.ci

\* `loop {` of main, lines 30-32: one page of guilds is requested.
GetGuildsOk ==
  /\ pc = "get_guilds"
  /\ guilds' = get_guilds(0, GuildLimit)
  /\ Goto(AfterGuild(guilds', 1))
  /\ UNCHANGED << channel_retention, channels, oldest_msg, message_ids_to_delete >>
  /\ UNCHANGED << envVars, histVars, filterVars >>
  /\ UNCHANGED << moreHist, parseVars >>

GetGuildsErr ==
  /\ pc = "get_guilds"
  /\ pc' = OnGuildsError
  /\ UNCHANGED << channel_retention, guilds, gi, channels, ci, oldest_msg,
                  message_ids_to_delete >>
  /\ UNCHANGED << envVars, histVars, filterVars >>
  /\ UNCHANGED << moreHist, parseVars >>

\* process_guild, line 51 and the loop head of lines 52-56.
GetChannelsOk ==
  /\ pc = "process_guild"
  /\ channels' = ChannelsOf(CurGuild)
  /\ listed' = listed \cup {CurGuild}
  /\ Goto(AfterChannel(guilds, gi, channels', 1))
  /\ UNCHANGED << channel_retention, guilds, oldest_msg, message_ids_to_delete >>
  /\ UNCHANGED << cycle, listFailed, histReq, delReq, removed, result,
                  prevResult, started, snapshot >>
  /\ UNCHANGED << envVars, filterVars >>
  /\ UNCHANGED << moreHist, parseVars >>

GetChannelsErr ==
  /\ pc = "process_guild"
  /\ listed' = listed \cup {CurGuild}
  /\ listFailed' = listFailed \cup {CurGuild}
  /\ Goto(OnGuildError(guilds, gi))
  /\ UNCHANGED << channel_retention, guilds, channels, oldest_msg,
                  message_ids_to_delete >>
  /\ UNCHANGED << cycle, histReq, delReq, removed, result, prevResult, started,
                  snapshot >>
  /\ UNCHANGED << envVars, filterVars >>
  /\ UNCHANGED << moreHist, parseVars >>

\* process_channel returns r for the current channel; process_guild logs an
\* error and takes the next channel.
EndChannel(r) ==
  /\ result' = [result EXCEPT ![CurChannel.id] = r]
  /\ oldest_msg' = 0
  /\ message_ids_to_delete' = << >>
  /\ Goto(IF r = Ok
          THEN AfterChannel(guilds, gi, channels, ci + 1)
          ELSE OnChannelError(guilds, gi, channels, ci))

\* Lines 93-104 entered with the collected ids: the deletion loop, which
\* returns Ok(()) at once when there is nothing to delete.
StartDeletes(ids) ==
  IF ids = << >>
  THEN EndChannel(Ok)
  ELSE /\ pc' = "delete"
       /\ message_ids_to_delete' = ids
       /\ oldest_msg' = 0
       /\ UNCHANGED << gi, ci, result >>

\* Mutant of Collected: the `while let` loop is missing, only the first page
\* is looked at.
Collected_FirstPageOnly(batch, ids) == StartDeletes(ids)

\* Mutant of Collected: a page shorter than the limit is taken for the last
\* one and no further page is requested.
Collected_StopOnShortPage(batch, ids) ==
  IF Len(batch) < PageLimit
  THEN StartDeletes(ids)
  ELSE /\ pc' = "paginate"
       /\ oldest_msg' = batch[Len(batch)].id
       /\ message_ids_to_delete' = ids
       /\ UNCHANGED << gi, ci, result >>

\* Mutant of Collected: the rest of the channel's work is left running (a
\* spawned task, a future not awaited) and process_guild takes the next
\* channel.
Collected_Detached(batch, ids) ==
  /\ Goto(AfterChannel(guilds, gi, channels, ci + 1))
  /\ oldest_msg' = 0
  /\ message_ids_to_delete' = ids
  /\ UNCHANGED result

\* Mutant of Collected: the cursor is the newest message of the page
\* instead of the oldest.
Collected_CursorFirst(batch, ids) ==
  IF batch = << >>
  THEN StartDeletes(ids)
  ELSE /\ pc' = "paginate"
       /\ oldest_msg' = batch[1].id
       /\ message_ids_to_delete' = ids
       /\ UNCHANGED << gi, ci, result >>

\* A page has arrived: filter it, append, and fetch the next page unless
\* this one is empty (lines 78-91).
Collected(batch, ids) ==
  IF batch = << >>
  THEN StartDeletes(ids)
  ELSE /\ pc' = "paginate"
       /\ oldest_msg' = batch[Len(batch)].id
       /\ message_ids_to_delete' = ids
       /\ UNCHANGED << gi, ci, result >>

\* The ids of a page, in the order of the page.
Ids(batch) == [k \in 1..Len(batch) |-> batch[k].id]

\* process_channel, lines 74-80: the first page.
FirstBatchOk ==
  /\ pc = "process_channel"
  /\ LET c == CurChannel.id
         first_batch == get_messages(c, PageLimit, 0)
     IN /\ histReq' = [histReq EXCEPT ![c] = @ + 1]
        /\ started' = [started EXCEPT ![c] = now]
        /\ snapshot' = [snapshot EXCEPT ![c] = msgs[c]]
        /\ seen' = Ids(first_batch)
        /\ Collected(first_batch, filter_messages(first_batch, CurMaxAge))
  /\ UNCHANGED << channel_retention, guilds, channels >>
  /\ UNCHANGED << cycle, listed, listFailed, delReq, removed, prevResult >>
  /\ UNCHANGED << envVars, filterVars >>
  /\ UNCHANGED << sweepStart, parseVars >>

FirstBatchErr ==
  /\ pc = "process_channel"
  /\ LET c == CurChannel.id
     IN /\ histReq' = [histReq EXCEPT ![c] = @ + 1]
        /\ started' = [started EXCEPT ![c] = now]
        /\ snapshot' = [snapshot EXCEPT ![c] = msgs[c]]
  /\ EndChannel("TransportError")
  /\ UNCHANGED << channel_retention, guilds, channels >>
  /\ UNCHANGED << cycle, listed, listFailed, delReq, removed, prevResult >>
  /\ UNCHANGED << envVars, filterVars >>
  /\ seen' = << >>
  /\ UNCHANGED << sweepStart, parseVars >>

\* process_channel, lines 82-91: one more page, before the oldest seen.
NextBatchOk ==
  /\ pc = "paginate"
  /\ LET c == CurChannel.id
         batch == get_messages(c, PageLimit, oldest_msg)
     IN /\ histReq' = [histReq EXCEPT ![c] = @ + 1]
        /\ seen' = seen \o Ids(batch)
        /\ Collected(batch,
                     message_ids_to_delete \o filter_messages(batch, CurMaxAge))
  /\ UNCHANGED << channel_retention, guilds, channels >>
  /\ UNCHANGED << cycle, listed, listFailed, delReq, removed, prevResult,
                  started, snapshot >>
  /\ UNCHANGED << envVars, filterVars >>
  /\ UNCHANGED << sweepStart, parseVars >>

NextBatchErr ==
  /\ pc = "paginate"
  /\ histReq' = [histReq EXCEPT ![CurChannel.id] = @ + 1]
  /\ EndChannel("TransportError")
  /\ UNCHANGED << channel_retention, guilds, channels >>
  /\ UNCHANGED << cycle, listed, listFailed, delReq, removed, prevResult,
                  started, snapshot >>
  /\ UNCHANGED << envVars, filterVars >>
  /\ UNCHANGED << moreHist, parseVars >>

\* process_channel, lines 100-102: one delete_message call that succeeds.
DeleteOk ==
  /\ pc = "delete"
  /\ LET c == CurChannel.id
         msg_id == Head(message_ids_to_delete)
         rest == Tail(message_ids_to_delete)
     IN /\ msg_id \in msgs[c]
        /\ msgs' = [msgs EXCEPT ![c] = @ \ {msg_id}]
        /\ delReq' = delReq \cup {<< c, msg_id >>}
        /\ removed' = removed \cup {<< c, msg_id >>}
        /\ IF rest = << >>
           THEN EndChannel(Ok)
           ELSE /\ message_ids_to_delete' = rest
                /\ UNCHANGED << pc, gi, ci, oldest_msg, result >>
  /\ UNCHANGED << channel_retention, guilds, channels >>
  /\ UNCHANGED << cycle, listed, listFailed, histReq, prevResult, started,
                  snapshot >>
  /\ UNCHANGED << directory, old, now, ticks, extDeletes >>
  /\ UNCHANGED filterVars
  /\ UNCHANGED << moreHist, parseVars >>

\* One delete_message call that the service answers with error e; NotFound
\* is the answer only for a message that is no longer there.
DeleteErr(e) ==
  /\ pc = "delete"
  /\ LET c == CurChannel.id
         msg_id == Head(message_ids_to_delete)
         rest == Tail(message_ids_to_delete)
         r == OnDeleteError(e)
     IN /\ (e = "NotFound") => (msg_id \notin msgs[c])
        /\ delReq' = delReq \cup {<< c, msg_id >>}
        /\ IF r = Ok /\ rest # << >>
           THEN /\ message_ids_to_delete' = rest
                /\ UNCHANGED << pc, gi, ci, oldest_msg, result >>
           ELSE EndChannel(r)
  /\ UNCHANGED << channel_retention, guilds, channels >>
  /\ UNCHANGED << cycle, listed, listFailed, histReq, removed, prevResult,
                  started, snapshot >>
  /\ UNCHANGED << envVars, filterVars >>
  /\ UNCHANGED << moreHist, parseVars >>

\* Mutant of WakeTime: the interval is counted from the start of the sweep.
WakeTime_fromStart ==
  IF sweepStart + Interval > now THEN sweepStart + Interval ELSE now

\* thread::sleep(interval), line 42: the time at which main wakes up.
WakeTime == now + Interval

\* main, line 42: thread::sleep(interval), then the next iteration of `loop`.
Sleep ==
  /\ pc = "sleep"
  /\ cycle < MaxCycles
  /\ now' = WakeTime
  /\ sweepStart' = now'
  /\ seen' = << >>
  /\ UNCHANGED parseVars
  /\ pc' = "get_guilds"
  /\ cycle' = cycle + 1
  /\ prevResult' = result
  /\ result' = [c \in ChannelIds |-> NoResult]
  /\ listed' = {}
  /\ listFailed' = {}
  /\ histReq' = [c \in ChannelIds |-> 0]
  /\ delReq' = {}
  /\ removed' = {}
  /\ started' = [c \in ChannelIds |-> 0]
  /\ snapshot' = [c \in ChannelIds |-> {}]
  /\ guilds' = << >>
  /\ channels' = << >>
  /\ gi' = 0
  /\ ci' = 0
  /\ UNCHANGED << channel_retention, oldest_msg, message_ids_to_delete >>
  /\ UNCHANGED << directory, msgs, old, ticks, extDeletes >>
  /\ UNCHANGED filterVars

\* A minute passes while a history request is in flight.
Tick ==
  /\ pc \in {"process_channel", "paginate"}
  /\ ticks < MaxTicks
  /\ now' = now + 1
  /\ ticks' = ticks + 1
  /\ UNCHANGED << directory, msgs, old, extDeletes >>
  /\ UNCHANGED << progVars, histVars, filterVars >>
  /\ UNCHANGED << moreHist, parseVars >>

\* Another actor (a moderator, an overlapping run) deletes the message the
\* process is about to delete.  (A deletion of any other collected message
\* shows to the process in the same way, once that message's turn comes.)
ExternalDelete ==
  /\ pc = "delete"
  /\ extDeletes < MaxExternal
  /\ LET c == CurChannel.id
         i == Head(message_ids_to_delete)
     IN /\ i \in msgs[c]
        /\ msgs' = [msgs EXCEPT ![c] = @ \ {i}]
  /\ extDeletes' = extDeletes + 1
  /\ UNCHANGED << directory, old, now, ticks >>
  /\ UNCHANGED << progVars, histVars, filterVars >>
  /\ UNCHANGED << moreHist, parseVars >>

\* State after startup (lines 21-27): configuration parsed, nothing fetched.
Init ==
  /\ directory \in Directories
  /\ \E sh \in Shapes :
       /\ msgs = [c \in ChannelIds |-> IF c = 11 THEN 1..sh[1] ELSE 1..2]
       /\ old = [c \in ChannelIds |-> IF c = 11 THEN sh[2] ELSE 1]
  /\ now = Now0
  /\ ticks = 0
  /\ extDeletes = 0
  /\ channel_retention \in Configs
  /\ pc = "get_guilds"
  /\ guilds = << >>
  /\ gi = 0
  /\ channels = << >>
  /\ ci = 0
  /\ oldest_msg = 0
  /\ message_ids_to_delete = << >>
  /\ cycle = 1
  /\ listed = {}
  /\ listFailed = {}
  /\ histReq = [c \in ChannelIds |-> 0]
  /\ delReq = {}
  /\ removed = {}
  /\ result = [c \in ChannelIds |-> NoResult]
  /\ prevResult = [c \in ChannelIds |-> NoResult]
  /\ started = [c \in ChannelIds |-> 0]
  /\ snapshot = [c \in ChannelIds |-> {}]
  /\ seen = << >>
  /\ sweepStart = now
  /\ p_input = << >>
  /\ p_out = << >>
  /\ p_pc = "off"
  /\ f_messages = << >>
  /\ f_max_age = 0
  /\ f_out = << >>
  /\ f_pc = "off"

Next ==
  \/ GetGuildsOk
  \/ GetGuildsErr
  \/ GetChannelsOk
  \/ GetChannelsErr
  \/ FirstBatchOk
  \/ FirstBatchErr
  \/ NextBatchOk
  \/ NextBatchErr
  \/ DeleteOk
  \/ \E e \in DeleteErrors : DeleteErr(e)
  \/ Sleep
  \/ Tick
  \/ ExternalDelete

Spec == Init /\ [][Next]_vars

\* ------------------------------------------- filter_messages on its own
FilterIds == 1..MaxLen
FilterTimes == {Now0 - Week - 1, Now0 - Week, Now0 - Week + 1, Now0 - Day}

\* Lists of at most MaxLen messages with distinct ids, in any order and with
\* any of the timestamps.
FilterInputs ==
  UNION { { m \in [1..n -> [id : FilterIds, timestamp : FilterTimes]] :
              \A j, k \in 1..n : j # k => m[j].id # m[k].id } :
          n \in 0..MaxLen }

FilterInit ==
  /\ f_messages \in FilterInputs
  /\ f_max_age \in {Day, Week}
  /\ f_out = << >>
  /\ f_pc = "call"
  /\ now \in {Now0, Now0 + 1}
  /\ directory = {}
  /\ msgs = [c \in ChannelIds |-> {}]
  /\ old = [c \in ChannelIds |-> 0]
  /\ ticks = 0
  /\ extDeletes = 0
  /\ channel_retention = ("general" :> Week)
  /\ pc = "filter"
  /\ guilds = << >>
  /\ gi = 0
  /\ channels = << >>
  /\ ci = 0
  /\ oldest_msg = 0
  /\ message_ids_to_delete = << >>
  /\ cycle = 1
  /\ listed = {}
  /\ listFailed = {}
  /\ histReq = [c \in ChannelIds |-> 0]
  /\ delReq = {}
  /\ removed = {}
  /\ result = [c \in ChannelIds |-> NoResult]
  /\ prevResult = [c \in ChannelIds |-> NoResult]
  /\ started = [c \in ChannelIds |-> 0]
  /\ snapshot = [c \in ChannelIds |-> {}]
  /\ seen = << >>
  /\ sweepStart = now
  /\ p_input = << >>
  /\ p_out = << >>
  /\ p_pc = "off"

\* One call filter_messages(&messages, max_age).
FilterCall ==
  /\ f_pc = "call"
  /\ f_out' = filter_messages(f_messages, f_max_age)
  /\ f_pc' = "returned"
  /\ UNCHANGED << f_messages, f_max_age >>
  /\ UNCHANGED << envVars, progVars, histVars >>
  /\ UNCHANGED << moreHist, parseVars >>

FilterNext == FilterCall

FilterSpec == FilterInit /\ [][FilterNext]_vars

\* ------------------------------------------------------------------ claims
InitialHistories(c) == IF c = 11 THEN {1..sh[1] : sh \in Shapes} ELSE {1..2}
Matched(c) == NameOf(c) \in DOMAIN channel_retention
MaxAgeOf(c) == channel_retention[NameOf(c)]
Processed(c) == histReq[c] > 0
Issued(c) == {p[2] : p \in {q \in delReq : q[1] = c}}
StaleAt(c, t) == {i \in snapshot[c] : t - Timestamp(c, i) > MaxAgeOf(c)}
Failed(c) == result[c] \in DeleteErrors
Range(f) == {f[k] : k \in DOMAIN f}

\* C1: once a rule-matched channel has failed in a cycle, every rule-matched
\* channel of every guild of the directory whose channel listing did not fail
\* has still been processed when that cycle ends.
C1_FailureDoesNotStopSweep ==
  (pc = "sleep" /\ \E c \in ChannelIds : Failed(c))
    => \A d \in ChannelIds :
         (GuildOf(d) \in directory /\ GuildOf(d) \notin listFailed /\ Matched(d))
           => Processed(d)

\* C1, the part that holds: a failed channel does not stop the sweep of the
\* guilds the cycle fetched.
C1_IsolationAmongFetched ==
  (pc = "sleep" /\ \E c \in ChannelIds : Failed(c))
    => \A d \in ChannelIds :
         (GuildOf(d) \in Range(guilds) /\ GuildOf(d) \notin listFailed /\ Matched(d))
           => Processed(d)

\* C2: the process never exits because a remote call failed.
C2_NeverExits == pc # "exited"

\* C3: when the channel listing of a guild fails, no history or deletion
\* request is issued for its channels, the process goes on, every other guild
\* of the directory is visited and the cycle ends in the usual sleep.
C3_GuildSkipped ==
  \A g \in listFailed :
    /\ \A c \in ChannelIds :
         GuildOf(c) = g => (histReq[c] = 0 /\ \A p \in delReq : p[1] # c)
    /\ pc # "exited"
    /\ pc = "sleep" => \A h \in directory : h \in listed

\* C3, the part that holds: the guild is skipped, nothing is propagated and
\* the guilds the cycle fetched are all visited before the sleep.
C3_SkippedAmongFetched ==
  \A g \in listFailed :
    /\ \A c \in ChannelIds :
         GuildOf(c) = g => (histReq[c] = 0 /\ \A p \in delReq : p[1] # c)
    /\ pc # "exited"
    /\ pc = "sleep" => \A h \in Range(guilds) : h \in listed

\* C4: when a cycle ends, every guild of the directory has been visited and
\* every rule-matched channel of a guild whose listing succeeded has been
\* processed.
C4_FullPass ==
  pc = "sleep" =>
    /\ \A g \in directory : g \in listed
    /\ \A c \in ChannelIds :
         (GuildOf(c) \in directory /\ GuildOf(c) \notin listFailed /\ Matched(c))
           => Processed(c)

\* C5: when a rule-matched channel has been processed without a failure, a
\* deletion was issued for every message that was older than maxAge when its
\* processing began, only for messages older than maxAge, and every other
\* message of its history is still there.
C5_ExactlyStaleDeleted ==
  \A c \in ChannelIds :
    (Matched(c) /\ result[c] = Ok) =>
      /\ StaleAt(c, started[c]) \subseteq Issued(c)
      /\ Issued(c) \subseteq StaleAt(c, now)
      /\ \A p \in delReq : p[1] = c => p[2] \in snapshot[c]
      /\ snapshot[c] \ Issued(c) \subseteq msgs[c]

\* A sweep of a two-page history that deleted stale messages of both pages
\* and kept the fresh ones.
C5_Witness ==
  /\ result[11] = Ok
  /\ histReq[11] = 3
  /\ Issued(11) = {1, 2}
  /\ msgs[11] = 3..101

\* C6: filter_messages returns the id of a message iff now - timestamp >
\* max_age, once each, so a message exactly max_age old is not returned.
C6_FilterStrict ==
  f_pc = "returned" =>
    /\ \A k \in 1..Len(f_messages) :
         (f_messages[k].id \in Range(f_out))
           <=> (now - f_messages[k].timestamp > f_max_age)
    /\ Len(f_out) = Cardinality(Range(f_out))
    /\ Range(f_out) \subseteq {f_messages[k].id : k \in 1..Len(f_messages)}

\* A call with a message exactly max_age old, left out, and an older one,
\* returned.
C6_Witness ==
  /\ f_pc = "returned"
  /\ \E k \in 1..Len(f_messages) :
       /\ now - f_messages[k].timestamp = f_max_age
       /\ f_messages[k].id \notin Range(f_out)
  /\ \E k \in 1..Len(f_messages) :
       /\ now - f_messages[k].timestamp > f_max_age
       /\ f_messages[k].id \in Range(f_out)

\* C7: a channel without a rule of its name gets no history request and no
\* deletion request and keeps its messages; a channel with a rule gets
\* deletions only for messages older than the maxAge of the rule of its name.
C7_UnmatchedSkipped ==
  \A c \in ChannelIds :
    /\ ~Matched(c) =>
         /\ histReq[c] = 0
         /\ \A p \in delReq \cup removed : p[1] # c
         /\ msgs[c] \in InitialHistories(c)
    /\ Matched(c) =>
         \A p \in delReq : p[1] = c => now - Timestamp(c, p[2]) > MaxAgeOf(c)

\* A finished cycle that processed channel 13 of guild 1 and passed over the
\* unmatched channel 12 listed before it.
C7_Witness ==
  /\ pc = "sleep"
  /\ ~Matched(12)
  /\ result[13] = Ok
  /\ << 13, 1 >> \in removed
  /\ histReq[12] = 0

\* A deletion request of channel c in this step that did not delete.
FailedDelete(c) ==
  \E p \in delReq' \ delReq : p[1] = c /\ p \notin removed'

\* C8: a failed deletion ends the channel with that error as its result;
\* from then on in the cycle no deletion of that channel is requested, and
\* what was deleted before stays deleted.
C8_AbortOnFirstFailure ==
  [][\A c \in ChannelIds :
       /\ FailedDelete(c) => (result'[c] \in DeleteErrors /\ removed' = removed)
       /\ (Failed(c) /\ cycle' = cycle) =>
            /\ result'[c] = result[c]
            /\ \A p \in delReq' : p[1] = c => p \in delReq
       /\ cycle' = cycle =>
            \A p \in removed :
              p[1] = c => (p \in removed' /\ p[2] \notin msgs'[c])
    ]_vars

\* A finished cycle in which the second deletion of channel 11 failed: the
\* first message stays deleted, the others were never requested.
C8_Witness ==
  /\ pc = "sleep"
  /\ result[11] = "Forbidden"
  /\ << 11, 3 >> \in removed
  /\ << 11, 2 >> \in delReq
  /\ << 11, 1 >> \notin delReq
  /\ {1, 2} \subseteq msgs[11]

\* C9: no channel's processing ends in an error because a deletion was
\* answered NotFound.
C9_NotFoundIsSuccess == \A c \in ChannelIds : result[c] # "NotFound"

\* C10: a channel whose deletions were aborted by RateLimited or Forbidden in
\* the previous cycle is listed again in this cycle unless its guild's
\* listing fails, and when this cycle processes it without a failure a
\* deletion is issued for every message still present and stale.
C10_RetriedNextCycle ==
  \A c \in ChannelIds :
    prevResult[c] \in {"RateLimited", "Forbidden"} =>
      /\ (pc = "sleep" /\ GuildOf(c) \notin listFailed) => Processed(c)
      /\ pc \in {"get_guilds", "process_guild", "process_channel"} =>
           (message_ids_to_delete = << >> /\ oldest_msg = 0)
      /\ result[c] = Ok =>
           /\ StaleAt(c, started[c]) \subseteq Issued(c)
           /\ StaleAt(c, started[c]) \cap msgs[c] = {}

\* Channel 11 was aborted by RateLimited after its first deletion in the
\* previous cycle; this cycle deleted what was left, and message 3, which
\* has become older than a week in the meantime.
C10_Witness ==
  /\ prevResult[11] = "RateLimited"
  /\ result[11] = Ok
  /\ 2 \notin snapshot[11]
  /\ Issued(11) = {1, 3}
  /\ msgs[11] = 4..101

\* The second run of two in succession has ended: the first run processed
\* at least one channel and every deletion of it succeeded, nobody else
\* touched the messages, and no remote call of the second run failed.
SecondRunDone ==
  /\ cycle = 2
  /\ pc = "sleep"
  /\ extDeletes = 0
  /\ listFailed = {}
  /\ \A c \in ChannelIds : prevResult[c] \in {NoResult, Ok}
  /\ \A c \in ChannelIds : result[c] \in {NoResult, Ok}
  /\ \E c \in ChannelIds : prevResult[c] = Ok

PageSizes == {0, 1, 99, 100, 101, 200}

PageInit ==
  /\ directory = {1, 2}
  /\ \E n \in PageSizes : msgs = [c \in ChannelIds |-> IF c = 11 THEN 1..n ELSE 1..2]
  /\ \E k \in {0, 2} : old = [c \in ChannelIds |-> IF c = 11 THEN k ELSE 1]
  /\ now = Now0
  /\ ticks = 0
  /\ extDeletes = 0
  /\ channel_retention = ("general" :> Week)
  /\ pc = "get_guilds"
  /\ guilds = << >>
  /\ gi = 0
  /\ channels = << >>
  /\ ci = 0
  /\ oldest_msg = 0
  /\ message_ids_to_delete = << >>
  /\ cycle = 1
  /\ listed = {}
  /\ listFailed = {}
  /\ histReq = [c \in ChannelIds |-> 0]
  /\ delReq = {}
  /\ removed = {}
  /\ result = [c \in ChannelIds |-> NoResult]
  /\ prevResult = [c \in ChannelIds |-> NoResult]
  /\ started = [c \in ChannelIds |-> 0]
  /\ snapshot = [c \in ChannelIds |-> {}]
  /\ seen = << >>
  /\ sweepStart = now
  /\ f_messages = << >>
  /\ f_max_age = 0
  /\ f_out = << >>
  /\ f_pc = "off"
  /\ p_input = << >>
  /\ p_out = << >>
  /\ p_pc = "off"

PageNext ==
  \/ GetGuildsOk
  \/ GetChannelsOk
  \/ FirstBatchOk
  \/ NextBatchOk
  \/ DeleteOk
  \/ Tick

PageSpec == PageInit /\ [][PageNext]_vars

\* The pagination of channel c has received its last page.
Paginated(c) == histReq[c] > 0 /\ pc # "paginate"

\* C12: the pagination of a channel of N messages has issued
\* ceil(N / 100) + 1 history requests and received exactly the N messages,
\* each once, in strictly decreasing id order.
C12_PageCount ==
  Paginated(11) =>
    LET N == Cardinality(snapshot[11])
    IN /\ histReq[11] = ((N + PageLimit - 1) \div PageLimit) + 1
       /\ Len(seen) = N
       /\ Range(seen) = snapshot[11]
       /\ \A k \in 1..(Len(seen) - 1) : seen[k] > seen[k + 1]

\* A history of exactly two full pages, read with three requests.
C12_Witness ==
  /\ Paginated(11)
  /\ Cardinality(snapshot[11]) = 200
  /\ histReq[11] = 3
  /\ Len(seen) = 200

\* The step from the end of one sweep to the start of the next.
NextSweepStarts == pc = "sleep" /\ pc' = "get_guilds"

InProgress(c) == histReq[c] > 0 /\ result[c] = NoResult

\* A step that issues a history or deletion request for channel c.
Requests(c) ==
  \/ histReq'[c] > histReq[c]
  \/ \E p \in delReq' \ delReq : p[1] = c

\* C14: the only channel in progress is the one process_channel is working
\* on, a request for a channel is issued only while no other channel is in
\* progress and before that channel's processing has returned, and a new
\* sweep starts only from the sleep that ends the previous one.
C14_OneAtATime ==
  [][/\ \A c \in ChannelIds :
          InProgress(c)' => (pc' \in {"paginate", "delete"} /\ CurChannel'.id = c)
     /\ Cardinality({c \in ChannelIds : InProgress(c)'}) <= 1
     /\ \A c \in ChannelIds :
          (Requests(c) /\ cycle' = cycle) =>
            /\ result[c] = NoResult
            /\ \A d \in ChannelIds \ {c} : ~InProgress(d)
     /\ cycle' # cycle =>
          (pc = "sleep" /\ \A c \in ChannelIds : ~InProgress(c))
    ]_vars

\* Channel 11 has been processed to its end and channel 13 of the same
\* guild is now in its deletion loop.
C14_Witness ==
  /\ result[11] = Ok
  /\ << 11, 1 >> \in removed
  /\ InProgress(13)
  /\ pc = "delete"

\* The pinned flag of message i of channel c on the service: the oldest
\* message of every channel is pinned.  The process never reads it.
Pinned(c, i) == i = 1

\* The operator's setting "pinned messages are exempt from deletion".  The
\* process reads DISCORD_TOKEN and CHANNEL_RETENTION only, so the setting
\* has nothing to act on.
PinnedExempt == TRUE

\* C15: with the pinned-messages-exempt flag set, no pinned message is
\* deleted by a sweep.
C15_PinnedKept ==
  PinnedExempt => \A p \in removed : ~Pinned(p[1], p[2])

\* ------------------------------------------------------------------
\* parse_channel_retention.  A string is the sequence of its characters.
\* ------------------------------------------------------------------

\* Largest number of comma-separated entries in a checked input.
MaxEntries == 2

Digits == {"0", "1", "2", "3", "4", "5", "6", "7", "8", "9"}

DigitValue(ch) ==
  CASE ch = "0" -> 0 [] ch = "1" -> 1 [] ch = "2" -> 2 [] ch = "3" -> 3
    [] ch = "4" -> 4 [] ch = "5" -> 5 [] ch = "6" -> 6 [] ch = "7" -> 7
    [] ch = "8" -> 8 [] ch = "9" -> 9

RECURSIVE DecimalValue(_)
DecimalValue(ds) ==
  IF ds = << >> THEN 0
  ELSE 10 * DecimalValue(SubSeq(ds, 1, Len(ds) - 1)) + DigitValue(ds[Len(ds)])

\* Result::Ok(v) and Result::Err(e).
OkOf(v) == [tag |-> "Ok", value |-> v]
ErrOf(e) == [tag |-> "Err", value |-> e]

\* str::split(sep): the pieces between the separators; a string without
\* the separator (the empty string included) is one piece.
RECURSIVE split(_, _)
split(s, sep) ==
  IF \A k \in 1..Len(s) : s[k] # sep THEN << s >>
  ELSE LET k == CHOOSE k \in 1..Len(s) :
                  s[k] = sep /\ \A j \in 1..(k - 1) : s[j] # sep
       IN << SubSeq(s, 1, k - 1) >> \o split(SubSeq(s, k + 1, Len(s)), sep)

\* str::parse::<i64>(): an optional sign, then one or more decimal digits;
\* anything else is std's ParseIntError.  The checked magnitudes have at
\* most two digits, far inside the 64-bit range.
parse_i64(s) ==
  LET signed == Len(s) > 0 /\ s[1] \in {"+", "-"}
      ds     == IF signed THEN Tail(s) ELSE s
  IN IF ds = << >> \/ \E k \in 1..Len(ds) : ds[k] \notin Digits
     THEN ErrOf("ParseIntError")
     ELSE OkOf(IF signed /\ s[1] = "-" THEN 0 - DecimalValue(ds)
               ELSE DecimalValue(ds))

\* Duration::days and Duration::weeks, in minutes.
Duration_days(n) == n * Day
Duration_weeks(n) == n * Week

\* The body of the loop up to the insert: the (name, duration) pair of one
\* entry, or the error that `?` returns from the function.
parse_entry(channel) ==
  LET parts == split(channel, ":") IN
  IF Len(parts) < 1 THEN ErrOf("InvalidChannelConfigError")
  ELSE IF Len(parts) < 2 THEN ErrOf("InvalidChannelConfigError")
  ELSE LET channel_name == parts[1]
           channel_duration_str == parts[2]
       IN IF channel_duration_str = << >> THEN ErrOf("InvalidDurationError")
          ELSE LET popped == channel_duration_str[Len(channel_duration_str)]
                   rest == SubSeq(channel_duration_str, 1,
                                  Len(channel_duration_str) - 1)
                   n == parse_i64(rest)
               IN IF popped = "d"
                  THEN IF n.tag = "Err" THEN n
                       ELSE OkOf(<< channel_name, Duration_days(n.value) >>)
                  ELSE IF popped = "w"
                  THEN IF n.tag = "Err" THEN n
                       ELSE OkOf(<< channel_name, Duration_weeks(n.value) >>)
                  ELSE ErrOf("InvalidDurationError")

\* An insert that keeps the value already stored under the key.
insert_keepFirst(map, k, v) == map @@ (k :> v)

\* HashMap::insert: the new value replaces the one stored under the key.
insert(map, k, v) == (k :> v) @@ map

\* The for loop over the entries, from entry i on.
RECURSIVE parse_from(_, _, _)
parse_from(entries, i, map) ==
  IF i > Len(entries) THEN OkOf(map)
  ELSE LET r == parse_entry(entries[i]) IN
       IF r.tag = "Err" THEN r
       ELSE parse_from(entries, i + 1, insert(map, r.value[1], r.value[2]))

parse_channel_retention(input) == parse_from(split(input, ","), 1, << >>)

\* The entries the checked inputs are built from:
\*   a:7d  b:2w  a:2w  b:10d  bad  a:5x  a:xd  a:  a:d  (empty)
\*   a:0d  a:-3w  a:5d:x
EntryTexts ==
  { << "a", ":", "7", "d" >>, << "b", ":", "2", "w" >>,
    << "a", ":", "2", "w" >>, << "b", ":", "1", "0", "d" >>,
    << "b", "a", "d" >>, << "a", ":", "5", "x" >>,
    << "a", ":", "x", "d" >>, << "a", ":" >>, << "a", ":", "d" >>,
    << >>,
    << "a", ":", "0", "d" >>, << "a", ":", "-", "3", "w" >>,
    << "a", ":", "5", "d", ":", "x" >> }

\* The entries joined by commas.
RECURSIVE Join(_)
Join(texts) ==
  IF Len(texts) = 1 THEN texts[1]
  ELSE texts[1] \o << "," >> \o Join(Tail(texts))

ParserInputs ==
  { Join(ts) : ts \in UNION { [1..n -> EntryTexts] : n \in 1..MaxEntries } }

ParserInit ==
  /\ p_input \in ParserInputs
  /\ p_out = << >>
  /\ p_pc = "call"
  /\ now = Now0
  /\ directory = {}
  /\ msgs = [c \in ChannelIds |-> {}]
  /\ old = [c \in ChannelIds |-> 0]
  /\ ticks = 0
  /\ extDeletes = 0
  /\ channel_retention = << >>
  /\ pc = "startup"
  /\ guilds = << >>
  /\ gi = 0
  /\ channels = << >>
  /\ ci = 0
  /\ oldest_msg = 0
  /\ message_ids_to_delete = << >>
  /\ cycle = 1
  /\ listed = {}
  /\ listFailed = {}
  /\ histReq = [c \in ChannelIds |-> 0]
  /\ delReq = {}
  /\ removed = {}
  /\ result = [c \in ChannelIds |-> NoResult]
  /\ prevResult = [c \in ChannelIds |-> NoResult]
  /\ started = [c \in ChannelIds |-> 0]
  /\ snapshot = [c \in ChannelIds |-> {}]
  /\ seen = << >>
  /\ sweepStart = now
  /\ f_messages = << >>
  /\ f_max_age = 0
  /\ f_out = << >>
  /\ f_pc = "off"

\* The call parse_channel_retention(env::var("CHANNEL_RETENTION")?) of main.
ParseCall ==
  /\ p_pc = "call"
  /\ p_out' = parse_channel_retention(p_input)
  /\ p_pc' = "done"
  /\ UNCHANGED p_input
  /\ UNCHANGED << envVars, progVars, histVars, filterVars, moreHist >>

ParserNext == ParseCall

ParserSpec == ParserInit /\ [][ParserNext]_vars

\* What the claim calls a string: entry e has a ':'.
HasColon(e) == \E k \in 1..Len(e) : e[k] = ":"

\* An optional sign followed by one or more digits.
IsInteger(s) ==
  LET ds == IF Len(s) > 0 /\ s[1] \in {"+", "-"} THEN Tail(s) ELSE s
  IN Len(ds) > 0 /\ \A k \in 1..Len(ds) : ds[k] \in Digits

\* The part of entry e between its first ':' and its second (or its end).
DurationPart(e) ==
  LET k == CHOOSE k \in 1..Len(e) :
             e[k] = ":" /\ \A j \in 1..(k - 1) : e[j] # ":"
      after == SubSeq(e, k + 1, Len(e))
  IN IF HasColon(after)
     THEN SubSeq(after, 1, (CHOOSE m \in 1..Len(after) :
                   after[m] = ":" /\ \A j \in 1..(m - 1) : after[j] # ":") - 1)
     ELSE after

NoSuffix(e) == HasColon(e) /\ DurationPart(e) = << >>
BadSuffix(e) ==
  /\ HasColon(e) /\ DurationPart(e) # << >>
  /\ DurationPart(e)[Len(DurationPart(e))] \notin {"d", "w"}
BadMagnitude(e) ==
  /\ HasColon(e) /\ DurationPart(e) # << >>
  /\ DurationPart(e)[Len(DurationPart(e))] \in {"d", "w"}
  /\ ~IsInteger(SubSeq(DurationPart(e), 1, Len(DurationPart(e)) - 1))

Malformed(e) == ~HasColon(e) \/ NoSuffix(e) \/ BadSuffix(e) \/ BadMagnitude(e)

\* Entry i of the input is the first malformed one.
FirstMalformed(es, i) ==
  i \in 1..Len(es) /\ Malformed(es[i]) /\ \A j \in 1..(i - 1) : ~Malformed(es[j])

\* C16: parsing fails with InvalidChannelConfig when an entry has no ':',
\* and with InvalidDuration when the duration part is empty, when its last
\* character is neither 'd' nor 'w', or when the magnitude is not an
\* integer; a failing parse produces no configuration.
C16_ParseErrors ==
  p_pc = "done" =>
    LET es == split(p_input, ",") IN
    \A i \in 1..Len(es) :
      FirstMalformed(es, i) =>
        p_out = ErrOf(IF HasColon(es[i]) THEN "InvalidDurationError"
                      ELSE "InvalidChannelConfigError")

\* The cases of C16 other than the magnitude: these fail as stated, and a
\* bad magnitude fails too, with no configuration produced.
C16_ErrorsExceptMagnitude ==
  p_pc = "done" =>
    LET es == split(p_input, ",") IN
    \A i \in 1..Len(es) :
      FirstMalformed(es, i) =>
        /\ p_out.tag = "Err"
        /\ ~HasColon(es[i]) => p_out.value = "InvalidChannelConfigError"
        /\ (NoSuffix(es[i]) \/ BadSuffix(es[i]))
             => p_out.value = "InvalidDurationError"

\* The well-formed entries, with what each one says.
WellFormed ==
  { [text |-> << "a", ":", "7", "d" >>, name |-> << "a" >>,
     magnitude |-> 7, suffix |-> "d"],
    [text |-> << "b", ":", "2", "w" >>, name |-> << "b" >>,
     magnitude |-> 2, suffix |-> "w"],
    [text |-> << "a", ":", "2", "w" >>, name |-> << "a" >>,
     magnitude |-> 2, suffix |-> "w"],
    [text |-> << "b", ":", "1", "0", "d" >>, name |-> << "b" >>,
     magnitude |-> 10, suffix |-> "d"] }

Rows == UNION { [1..n -> WellFormed] : n \in 1..MaxEntries }

\* The mapping the claim gives for the rows: for each name the duration
\* of the last row with that name.
Expected(rows) ==
  [nm \in {rows[k].name : k \in 1..Len(rows)} |->
     LET last == CHOOSE k \in 1..Len(rows) :
                   /\ rows[k].name = nm
                   /\ \A j \in (k + 1)..Len(rows) : rows[j].name # nm
     IN IF rows[last].suffix = "d" THEN rows[last].magnitude * Day
        ELSE 7 * rows[last].magnitude * Day]

\* C17: a well-formed string parses to the mapping of each name to
\* magnitude days ('d') or 7 * magnitude days ('w'); of several entries
\* with one name the last one counts.
C17_ParsedMapping ==
  p_pc = "done" =>
    \A rows \in Rows :
      Join([k \in 1..Len(rows) |-> rows[k].text]) = p_input
        => p_out = OkOf(Expected(rows))

C17_Witness ==
  /\ p_pc = "done"
  /\ p_input = Join(<< << "a", ":", "7", "d" >>, << "a", ":", "2", "w" >> >>)
  /\ p_out = OkOf(<< "a" >> :> 14 * Day)

\* C18: every rule of a configuration the parser returns is strictly
\* positive.
C18_PositiveRules ==
  (p_pc = "done" /\ p_out.tag = "Ok") =>
    \A nm \in DOMAIN p_out.value : p_out.value[nm] > 0

\* The page specification with the awaited history request completing: the
\* service answers every request and the runtime resumes process_channel.
PageFair == PageInit /\ [][PageNext]_vars /\ WF_vars(NextBatchOk)

\* The step is a history request of channel c, answered with a page.
PageStep(c) == histReq'[c] = histReq[c] + 1

\* The ids of the page that the step brought.
PageOf(c) ==
  IF histReq[c] = 0 THEN seen' ELSE SubSeq(seen', Len(seen) + 1, Len(seen'))

\* C19: pagination requests another page exactly when the page just
\* received is not empty; each request after the first is bounded by the id
\* of the last message of the previous page, exclusively; and on a finite
\* history the empty page is eventually reached, so pagination ends.
C19_PaginationTerminates ==
  /\ [][\A c \in ChannelIds :
          PageStep(c) =>
            /\ (pc' = "paginate") <=> (PageOf(c) # << >>)
            /\ pc' = "paginate" => oldest_msg' = seen'[Len(seen')]
            /\ histReq[c] > 0 =>
                 /\ pc = "paginate"
                 /\ oldest_msg = seen[Len(seen)]
                 /\ \A k \in 1..Len(PageOf(c)) : PageOf(c)[k] < oldest_msg
                 /\ PageOf(c) = Ids(get_messages(c, PageLimit, seen[Len(seen)]))
    ]_vars
  /\ (pc = "paginate") ~> (pc # "paginate")

C19_Witness ==
  /\ Paginated(11)
  /\ Cardinality(snapshot[11]) = 101
  /\ histReq[11] = 3
  /\ seen[Len(seen)] = 1
  /\ oldest_msg = 0

\* C20: a deletion of a channel is issued only after the channel's whole
\* history has been paginated to the empty page; a history request that
\* fails ends the channel for the cycle with no deletion issued, whatever
\* had been collected from earlier pages.
C20_DeleteOnlyAfterFullPagination ==
  [][\A c \in ChannelIds :
       /\ (\E p \in delReq' \ delReq : p[1] = c) =>
            /\ pc = "delete"
            /\ result[c] = NoResult
            /\ Range(seen) = snapshot[c]
            /\ Ids(get_messages(c, PageLimit, seen[Len(seen)])) = << >>
       /\ (PageStep(c) /\ result'[c] \notin {NoResult, Ok}) =>
            /\ \A p \in delReq' : p[1] # c
            /\ pc' # "delete"
    ]_vars

C20_Witness ==
  /\ pc = "sleep"
  /\ result[11] = "TransportError"
  /\ histReq[11] = 2
  /\ Cardinality(snapshot[11]) = 101
  /\ Issued(11) = {}
  /\ {1, 2} \subseteq msgs[11]
  /\ result[13] = Ok /\ Issued(13) # {}

====
